---- MODULE Spec2Model ----
(***************************************************************************)
(* A model of the AI course creator: the provider factory and the two      *)
(* provider variants, the syllabus service and its parser, the syllabus    *)
(* data model with its markdown rendering, and the run of main.            *)
(***************************************************************************)
EXTENDS Integers, Sequences, FiniteSets, TLC

VARIABLES
    data,        \* the JSON-decoded value handed to _parse_syllabus_data
    parsed,      \* the outcome of _parse_syllabus_data(data)
    md_lines,    \* to_markdown's local md_lines when it reaches its return
    rendered,    \* the outcome of Syllabus.to_markdown() on the parsed value
    rendered_again  \* the outcome of a second to_markdown() on the same Syllabus

parseVars == <<data, parsed, md_lines, rendered, rendered_again>>

VARIABLES
    installed,    \* the vendor packages that can be imported in this environment
    provider,     \* the provider instance create_provider returned, if any
    built,        \* how many vendor clients have been constructed so far
    calls,        \* the calls of the provider's generate_syllabus, in order
    requests,     \* the requests sent to the vendor API, in order
    last          \* the latest call of the factory, the provider or the service

provVars == <<installed, provider, built, calls, requests, last>>

VARIABLES
    pc,            \* where the run of main is
    config,        \* the Config loaded from the environment
    collected,     \* main's course_input, as far as it has been collected
    creds,         \* main's provider_name, api_key and model
    exit,          \* the exit of the process, once the run has ended
    stdout,        \* what was printed: the Display calls and the cancellation message
    fs             \* the output directory and the files written into it

mainVars == <<pc, config, collected, creds, exit, stdout, fs>>
vars == <<parseVars, provVars, mainVars>>

(***************************************************************************)
(* Bounds of the model.                                                    *)
(***************************************************************************)
MaxItems == 1      \* longest list of strings (prerequisites, outcomes, objectives)
MaxModules == 2    \* longest "modules" list
MaxLessons == 2    \* longest "lessons" list
MaxCalls == 2      \* most calls made on one provider instance
MaxTitleLen == 4   \* longest course title whose file name is derived

(***************************************************************************)
(* Python values as json.loads produces them, tagged by their type.        *)
(***************************************************************************)
JNull == [kind |-> "null"]
JStr(s) == [kind |-> "str", val |-> s]
JNum(n) == [kind |-> "num", val |-> n]
JList(q) == [kind |-> "list", val |-> q]
JMap(f) == [kind |-> "map", val |-> f]

\* The outcome of a call: not made yet, a returned value, or a raised exception.
NotCalled == [st |-> "none"]
Return(v) == [st |-> "ok", val |-> v]
Raise(e) == [st |-> "raise", exc |-> e]

\* An exception object of class t.
Exc(t) == [type |-> t]

\* The base classes of the exception classes that occur, up to BaseException.
Bases(t) ==
    CASE t = "JSONDecodeError" -> {"JSONDecodeError", "ValueError", "Exception"}
      [] t = "KeyboardInterrupt" -> {"KeyboardInterrupt"}
      [] OTHER -> {t, "Exception"}

\* isinstance(e, cls): what an "except cls" clause catches.
IsInstance(e, cls) == cls \in Bases(e.type)

\* Python's truth value of an object: None, "", 0, [] and {} are false.
Truthy(v) ==
    CASE v.kind = "null" -> FALSE
      [] v.kind = "str" -> v.val # ""
      [] v.kind = "num" -> v.val # 0
      [] v.kind = "list" -> Len(v.val) > 0
      [] v.kind = "map" -> DOMAIN v.val # {}

\* str(v) as an f-string formats it (None prints as "None").
PyStr(v) ==
    CASE v.kind = "null" -> "None"
      [] v.kind = "str" -> v.val
      [] v.kind = "num" -> ToString(v.val)
      [] v.kind = "list" /\ v.val = <<>> -> "[]"
      [] v.kind = "map" /\ DOMAIN v.val = {} -> "{}"

\* Some enumeration of a finite set (a dict iterates its keys).
SetToSeq(S) == CHOOSE q \in [1..Cardinality(S) -> S] : {q[i] : i \in DOMAIN q} = S

\* iter(v): the elements a for loop visits, or the TypeError of a non-iterable.
\* A str iterates its characters, each a one-character str.
Iter(v) ==
    CASE v.kind = "list" -> Return(v.val)
      [] v.kind = "str" -> Return([i \in 1..Len(v.val) |-> JStr("c")])
      [] v.kind = "map" -> Return([i \in 1..Cardinality(DOMAIN v.val) |->
                                      JStr(SetToSeq(DOMAIN v.val)[i])])
      [] OTHER -> Raise(Exc("TypeError"))

\* d.get(k, default) on a dict d.
dict_get(d, k, default) == IF k \in DOMAIN d.val THEN d.val[k] ELSE default

\* Marks a key that a mapping leaves out (no Python value).
Missing == [kind |-> "missing"]

\* The dict holding the keys of c whose choice is not Missing.
MkMap(c) == JMap([k \in {x \in DOMAIN c : c[x] # Missing} |-> c[k]])

\* Lists of at most MaxItems strings.
StrLists(item) == {JList([i \in 1..n |-> JStr(item)]) : n \in 0..MaxItems}

GoodLesson ==
    MkMap([title |-> JStr("L"), description |-> JStr("d"),
           duration_minutes |-> JNum(30), learning_objectives |-> JList(<<JStr("o")>>)])

GoodModule ==
    MkMap([title |-> JStr("M"), description |-> JStr("d"),
           lessons |-> JList(<<GoodLesson>>), order |-> JNum(1)])

(***************************************************************************)
(* SyllabusService._parse_syllabus_data                                    *)
(***************************************************************************)
\* One Lesson(...) construction from a lesson mapping.
ParseLesson(lesson_data) ==
    [title |-> dict_get(lesson_data, "title", JStr("")),
     description |-> dict_get(lesson_data, "description", JNull),
     duration_minutes |-> dict_get(lesson_data, "duration_minutes", JNull),
     learning_objectives |-> dict_get(lesson_data, "learning_objectives", JList(<<>>))]

\* The inner loop: lessons.append(Lesson(...)) for each element in order; an
\* element without .get (not a dict) raises AttributeError.
RECURSIVE ParseLessons(_, _, _)
ParseLessons(items, i, lessons) ==
    IF i > Len(items) THEN Return(lessons)
    ELSE IF items[i].kind # "map" THEN Raise(Exc("AttributeError"))
    ELSE ParseLessons(items, i + 1, Append(lessons, ParseLesson(items[i])))

\* One pass of the outer loop body for a module mapping.
ParseModule(module_data) ==
    IF module_data.kind # "map" THEN Raise(Exc("AttributeError"))
    ELSE LET it == Iter(dict_get(module_data, "lessons", JList(<<>>)))
         IN  IF it.st = "raise" THEN it
             ELSE LET ls == ParseLessons(it.val, 1, <<>>)
                  IN  IF ls.st = "raise" THEN ls
                      ELSE Return([title |-> dict_get(module_data, "title", JStr("")),
                                   description |-> dict_get(module_data, "description", JNull),
                                   lessons |-> ls.val,
                                   order |-> dict_get(module_data, "order", JNum(0))])

RECURSIVE ParseModules(_, _, _)
ParseModules(items, i, modules) ==
    IF i > Len(items) THEN Return(modules)
    ELSE LET m == ParseModule(items[i])
         IN  IF m.st = "raise" THEN m
             ELSE ParseModules(items, i + 1, Append(modules, m.val))

\* MakeSyllabus with the list defaults forgotten: data.get("prerequisites") and
\* data.get("learning_outcomes") without their [] default.
MakeSyllabusNoListDefaults(d, modules) ==
    [course_title |-> dict_get(d, "course_title", JStr("")),
     course_description |-> dict_get(d, "course_description", JStr("")),
     target_audience |-> dict_get(d, "target_audience", JNull),
     prerequisites |-> dict_get(d, "prerequisites", JNull),
     learning_outcomes |-> dict_get(d, "learning_outcomes", JNull),
     modules |-> modules,
     total_duration_hours |-> dict_get(d, "total_duration_hours", JNull)]

\* The Syllabus(...) construction from the top-level mapping and the modules.
MakeSyllabus(d, modules) ==
    [course_title |-> dict_get(d, "course_title", JStr("")),
     course_description |-> dict_get(d, "course_description", JStr("")),
     target_audience |-> dict_get(d, "target_audience", JNull),
     prerequisites |-> dict_get(d, "prerequisites", JList(<<>>)),
     learning_outcomes |-> dict_get(d, "learning_outcomes", JList(<<>>)),
     modules |-> modules,
     total_duration_hours |-> dict_get(d, "total_duration_hours", JNull)]

parse_syllabus_data(d) ==
    IF d.kind # "map" THEN Raise(Exc("AttributeError"))
    ELSE LET it == Iter(dict_get(d, "modules", JList(<<>>)))
         IN  IF it.st = "raise" THEN it
             ELSE LET ms == ParseModules(it.val, 1, <<>>)
                  IN  IF ms.st = "raise" THEN ms
                      ELSE Return(MakeSyllabus(d, ms.val))

(***************************************************************************)
(* Syllabus.to_markdown                                                    *)
(***************************************************************************)
\* Two outcomes that each hold a list of lines, one after the other; the
\* first exception raised wins.
Cat(r1, r2) ==
    IF r1.st = "raise" THEN r1
    ELSE IF r2.st = "raise" THEN r2
    ELSE Return(r1.val \o r2.val)

\* [f"{prefix}{x}" for x in v]
Bullets(prefix, v) ==
    LET it == Iter(v)
    IN  IF it.st = "raise" THEN it
        ELSE Return([i \in 1..Len(it.val) |-> JStr(prefix \o PyStr(it.val[i]))])

\* The " (N min)" suffix of a lesson line.
DurationSuffix(lesson) ==
    IF Truthy(lesson.duration_minutes)
    THEN " (" \o PyStr(lesson.duration_minutes) \o " min)"
    ELSE ""

\* The lines of one lesson of a module.
LessonLines(lesson, lesson_idx) ==
    Cat(Return(<<JStr(ToString(lesson_idx) \o ". " \o PyStr(lesson.title)
                        \o DurationSuffix(lesson))>>
               \o (IF Truthy(lesson.description)
                   THEN <<JStr("   - " \o PyStr(lesson.description))>>
                   ELSE <<>>)),
        IF Truthy(lesson.learning_objectives)
        THEN Cat(Return(<<JStr("   - Learning Objectives:")>>),
                 Bullets("     - ", lesson.learning_objectives))
        ELSE Return(<<>>))

RECURSIVE LessonsLines(_, _)
LessonsLines(lessons, lesson_idx) ==
    IF lesson_idx > Len(lessons) THEN Return(<<>>)
    ELSE Cat(LessonLines(lessons[lesson_idx], lesson_idx),
             LessonsLines(lessons, lesson_idx + 1))

\* ModuleLines that numbers a module by its order field, not by its position.
ModuleLinesByOrder(module, idx) ==
    Cat(Return(<<JStr("### Module " \o PyStr(module.order) \o ": " \o PyStr(module.title)),
                 JStr("")>>
               \o (IF Truthy(module.description)
                   THEN <<module.description, JStr("")>>
                   ELSE <<>>)),
        IF Len(module.lessons) > 0
        THEN Cat(Cat(Return(<<JStr("**Lessons:**")>>), LessonsLines(module.lessons, 1)),
                 Return(<<JStr("")>>))
        ELSE Return(<<>>))

\* The lines of one module: its heading, its description and its lessons.
ModuleLines(module, idx) ==
    Cat(Return(<<JStr("### Module " \o ToString(idx) \o ": " \o PyStr(module.title)),
                 JStr("")>>
               \o (IF Truthy(module.description)
                   THEN <<module.description, JStr("")>>
                   ELSE <<>>)),
        IF Len(module.lessons) > 0
        THEN Cat(Cat(Return(<<JStr("**Lessons:**")>>), LessonsLines(module.lessons, 1)),
                 Return(<<JStr("")>>))
        ELSE Return(<<>>))

RECURSIVE ModulesLines(_, _)
ModulesLines(modules, idx) ==
    IF idx > Len(modules) THEN Return(<<>>)
    ELSE Cat(ModuleLines(modules[idx], idx), ModulesLines(modules, idx + 1))

\* The header lines: title and course description.
HeaderLines(s) ==
    <<JStr("# " \o PyStr(s.course_title)), JStr(""), JStr("## Course Description"),
      s.course_description, JStr("")>>

TargetAudienceSection(s) ==
    IF Truthy(s.target_audience)
    THEN Return(<<JStr("## Target Audience"), s.target_audience, JStr("")>>)
    ELSE Return(<<>>)

PrerequisitesSection(s) ==
    IF Truthy(s.prerequisites)
    THEN Cat(Cat(Return(<<JStr("## Prerequisites")>>), Bullets("- ", s.prerequisites)),
             Return(<<JStr("")>>))
    ELSE Return(<<>>)

LearningOutcomesSection(s) ==
    IF Truthy(s.learning_outcomes)
    THEN Cat(Cat(Return(<<JStr("## Learning Outcomes")>>), Bullets("- ", s.learning_outcomes)),
             Return(<<JStr("")>>))
    ELSE Return(<<>>)

TotalDurationLine(s) ==
    "## Total Duration: " \o PyStr(s.total_duration_hours) \o " hours"

TotalDurationSection(s) ==
    IF Truthy(s.total_duration_hours)
    THEN Return(<<JStr(TotalDurationLine(s)), JStr("")>>)
    ELSE Return(<<>>)

\* md_lines as to_markdown has built it when it reaches its return statement.
MdLines(s) ==
    Cat(Cat(Cat(Cat(Cat(Cat(Return(HeaderLines(s)),
                            TargetAudienceSection(s)),
                        PrerequisitesSection(s)),
                    LearningOutcomesSection(s)),
                TotalDurationSection(s)),
            Return(<<JStr("## Course Modules"), JStr("")>>)),
        ModulesLines(s.modules, 1))

\* "\n".join(lines) of a list of str.
RECURSIVE JoinLines(_, _)
JoinLines(lines, i) ==
    IF i > Len(lines) THEN ""
    ELSE IF i = Len(lines) THEN lines[i].val
    ELSE lines[i].val \o "\n" \o JoinLines(lines, i + 1)

\* A to_markdown that consumes the modules it renders (modules.pop).
to_markdown_self_consuming(s) == [s EXCEPT !.modules = <<>>]

\* The Syllabus as to_markdown leaves it: the method only reads the fields of
\* self and appends to its local md_lines.
to_markdown_self(s) == s

\* to_markdown: the joined text; join raises TypeError on an item that is no str.
to_markdown(s) ==
    LET ls == MdLines(s)
    IN  IF ls.st = "raise" THEN ls
        ELSE IF \E i \in 1..Len(ls.val) : ls.val[i].kind # "str" THEN Raise(Exc("TypeError"))
        ELSE Return(JoinLines(ls.val, 1))

(***************************************************************************)
(* Strings whose characters matter (provider names) are sequences of       *)
(* one-character strings.                                                  *)
(***************************************************************************)
UpperCase == <<"A", "B", "C", "D", "E", "F", "G", "H", "I", "J", "K", "L", "M",
               "N", "O", "P", "Q", "R", "S", "T", "U", "V", "W", "X", "Y", "Z">>
LowerCase == <<"a", "b", "c", "d", "e", "f", "g", "h", "i", "j", "k", "l", "m",
               "n", "o", "p", "q", "r", "s", "t", "u", "v", "w", "x", "y", "z">>

\* str.lower(): every cased character replaced by its lowercase.
str_lower(name) ==
    [i \in DOMAIN name |->
        IF \E n \in DOMAIN UpperCase : UpperCase[n] = name[i]
        THEN LowerCase[CHOOSE n \in DOMAIN UpperCase : UpperCase[n] = name[i]]
        ELSE name[i]]

openai == <<"o", "p", "e", "n", "a", "i">>
gemini == <<"g", "e", "m", "i", "n", "i">>

(***************************************************************************)
(* ProviderFactory and the two providers.                                  *)
(***************************************************************************)
\* The keys of ProviderFactory.SUPPORTED_PROVIDERS, in the order of the dict.
SUPPORTED_PROVIDERS == <<openai, gemini>>

\* SUPPORTED_PROVIDERS[provider_name]
ProviderClass(name) == IF name = openai THEN "OpenAIProvider" ELSE "GeminiProvider"

\* The default of __init__'s model parameter.
DefaultModel(cls) ==
    IF cls = "OpenAIProvider" THEN JStr("gpt-4o-mini") ELSE JStr("gemini-1.5-flash")

\* No provider instance (yet).
NoProvider == [cls |-> "None"]

\* __init__ of a provider: the key and the model stored, no client (client 0).
NewProvider(cls, api_key, model) ==
    [cls |-> cls, api_key |-> api_key, model |-> model, client |-> 0]

\* create_provider that forgets provider_name.lower().
create_provider_case_sensitive(provider_name, api_key, model) ==
    IF \A n \in DOMAIN SUPPORTED_PROVIDERS : SUPPORTED_PROVIDERS[n] # provider_name
    THEN Raise([type |-> "ValueError", msg |-> "Unsupported provider",
                name |-> provider_name, supported |-> SUPPORTED_PROVIDERS])
    ELSE Return(NewProvider(ProviderClass(provider_name), api_key,
                            IF Truthy(model) THEN model
                            ELSE DefaultModel(ProviderClass(provider_name))))

\* ProviderFactory.create_provider
create_provider(provider_name, api_key, model) ==
    LET name == str_lower(provider_name)
    IN  IF \A n \in DOMAIN SUPPORTED_PROVIDERS : SUPPORTED_PROVIDERS[n] # name
        THEN Raise([type |-> "ValueError", msg |-> "Unsupported provider",
                    name |-> name, supported |-> SUPPORTED_PROVIDERS])
        ELSE Return(NewProvider(ProviderClass(name), api_key,
                                IF Truthy(model) THEN model
                                ELSE DefaultModel(ProviderClass(name))))

\* The package a provider class imports in _get_client.
VendorPackage(cls) == IF cls = "OpenAIProvider" THEN "openai" ELSE "google.generativeai"

\* The vendor's name in the provider's error message.
VendorName(cls) == IF cls = "OpenAIProvider" THEN "OpenAI" ELSE "Gemini"

\* _get_client that builds a new client on every call.
get_client_eager(p, pkgs, nbuilt) ==
    IF VendorPackage(p.cls) \notin pkgs
    THEN [res |-> Raise(Exc("ImportError")), provider |-> p, built |-> nbuilt]
    ELSE [res |-> Return(nbuilt + 1),
          provider |-> [p EXCEPT !.client = nbuilt + 1],
          built |-> nbuilt + 1]

\* _get_client: the client, constructed now if there is none yet.  A client is
\* named by its construction number.  The import fails with ImportError when
\* the vendor package is not installed.
get_client(p, pkgs, nbuilt) ==
    IF p.client # 0
    THEN [res |-> Return(p.client), provider |-> p, built |-> nbuilt]
    ELSE IF VendorPackage(p.cls) \notin pkgs
    THEN [res |-> Raise(Exc("ImportError")), provider |-> p, built |-> nbuilt]
    ELSE [res |-> Return(nbuilt + 1),
          provider |-> [p EXCEPT !.client = nbuilt + 1],
          built |-> nbuilt + 1]

\* The response bodies a vendor may send, and json.loads of each.
ExampleBody == "{\"course_title\": \"T\", \"modules\": []}"
FullBody == "{\"course_title\": \"Web Dev!\", \"course_description\": \"D\", \"modules\": [{\"title\": \"M\", \"description\": \"d\", \"lessons\": [{\"title\": \"L\", \"description\": \"d\", \"duration_minutes\": 30, \"learning_objectives\": [\"o\"]}], \"order\": 1}]}"
NullModulesBody == "{\"modules\": null}"
NullTitleBody == "{\"course_title\": null, \"modules\": []}"
ListBody == "[]"
ProseBody == "Here is your syllabus: {"
EmptyBody == ""
Bodies ==
    {ExampleBody, FullBody, NullModulesBody, NullTitleBody, ListBody, ProseBody, EmptyBody}

json_loads(content) ==
    CASE content = ExampleBody ->
             Return(MkMap([course_title |-> JStr("T"), modules |-> JList(<<>>)]))
      [] content = FullBody ->
             Return(MkMap([course_title |-> JStr("Web Dev!"),
                           course_description |-> JStr("D"),
                           modules |-> JList(<<GoodModule>>)]))
      [] content = NullModulesBody -> Return(MkMap([modules |-> JNull]))
      [] content = NullTitleBody ->
             Return(MkMap([course_title |-> JNull, modules |-> JList(<<>>)]))
      [] content = ListBody -> Return(JList(<<>>))
      [] OTHER -> Raise(Exc("JSONDecodeError"))

\* What the vendor SDK may raise from a request: a transport or an
\* authentication error, or the user's interrupt while the request waits.
VendorErrors == {Exc("APIConnectionError"), Exc("AuthenticationError")}
Interrupt == Exc("KeyboardInterrupt")

\* The except clauses of generate_syllabus in the wrong order: the catch-all first.
GenerateExceptCatchAllFirst(cls, r) ==
    IF r.st # "raise" THEN r
    ELSE IF IsInstance(r.exc, "Exception")
    THEN Raise([type |-> "Exception", msg |-> VendorName(cls) \o " API error",
                cause |-> r.exc])
    ELSE r

\* The except clauses of generate_syllabus, applied to the outcome r of its try
\* block.
GenerateExcept(cls, r) ==
    IF r.st # "raise" THEN r
    ELSE IF IsInstance(r.exc, "JSONDecodeError")
    THEN Raise([type |-> "ValueError", msg |-> "Failed to parse JSON response",
                cause |-> r.exc])
    ELSE IF IsInstance(r.exc, "Exception")
    THEN Raise([type |-> "Exception", msg |-> VendorName(cls) \o " API error",
                cause |-> r.exc])
    ELSE r

\* The request generate_syllabus sends: chat messages for OpenAI, one combined
\* prompt for Gemini.
GenerateRequest(p, client, system_prompt, user_prompt) ==
    IF p.cls = "OpenAIProvider"
    THEN [api |-> "chat.completions.create", client |-> client, model |-> p.model,
          system |-> system_prompt, user |-> user_prompt]
    ELSE [api |-> "generate_content", client |-> client,
          prompt |-> system_prompt \o "\n\n" \o user_prompt]

\* The request validate_api_key sends.
ValidateRequest(p, client) ==
    IF p.cls = "OpenAIProvider"
    THEN [api |-> "models.list", client |-> client]
    ELSE [api |-> "generate_content", client |-> client, prompt |-> "Test"]

\* generate_syllabus of a provider; vendor is what the vendor request does when
\* it is sent: Return(body) or Raise(error).
provider_generate_syllabus(p, pkgs, nbuilt, system_prompt, user_prompt, vendor) ==
    LET g == get_client(p, pkgs, nbuilt)
    IN  IF g.res.st = "raise"
        THEN [res |-> g.res, provider |-> g.provider, built |-> g.built, sent |-> <<>>]
        ELSE [res |-> GenerateExcept(p.cls, IF vendor.st = "raise" THEN vendor
                                            ELSE json_loads(vendor.val)),
              provider |-> g.provider, built |-> g.built,
              sent |-> <<GenerateRequest(p, g.res.val, system_prompt, user_prompt)>>]

\* validate_api_key with the client obtained outside the try block.
validate_api_key_client_outside_try(p, pkgs, nbuilt, vendor) ==
    LET g == get_client(p, pkgs, nbuilt)
    IN  IF g.res.st = "raise"
        THEN [res |-> g.res, provider |-> g.provider, built |-> g.built, sent |-> <<>>]
        ELSE [res |-> IF vendor.st = "raise"
                      THEN (IF IsInstance(vendor.exc, "Exception") THEN Return(FALSE)
                            ELSE vendor)
                      ELSE Return(p.cls = "OpenAIProvider" \/ vendor.val # "None"),
              provider |-> g.provider, built |-> g.built,
              sent |-> <<ValidateRequest(p, g.res.val)>>]

\* validate_api_key with a bare except clause, which catches the interrupt too.
validate_api_key_bare_except(p, pkgs, nbuilt, vendor) ==
    LET g == get_client(p, pkgs, nbuilt)
        body == IF g.res.st = "raise" THEN g.res
                ELSE IF vendor.st = "raise" THEN vendor
                ELSE Return(p.cls = "OpenAIProvider" \/ vendor.val # "None")
    IN  [res |-> IF body.st = "raise" THEN Return(FALSE) ELSE body,
         provider |-> g.provider, built |-> g.built,
         sent |-> IF g.res.st = "raise" THEN <<>> ELSE <<ValidateRequest(p, g.res.val)>>]

\* validate_api_key of a provider; vendor is what the minimal request does when
\* it is sent: Return("response"), Return("None") or Raise(error).  OpenAI's
\* returns True after the request, Gemini's whether the response is not None.
validate_api_key(p, pkgs, nbuilt, vendor) ==
    LET g == get_client(p, pkgs, nbuilt)
        body == IF g.res.st = "raise" THEN g.res
                ELSE IF vendor.st = "raise" THEN vendor
                ELSE Return(p.cls = "OpenAIProvider" \/ vendor.val # "None")
    IN  [res |-> IF body.st = "raise" /\ IsInstance(body.exc, "Exception")
                 THEN Return(FALSE)
                 ELSE body,
         provider |-> g.provider, built |-> g.built,
         sent |-> IF g.res.st = "raise" THEN <<>> ELSE <<ValidateRequest(p, g.res.val)>>]


(***************************************************************************)
(* CourseInput, SyllabusPromptBuilder and SyllabusService.generate_syllabus *)
(***************************************************************************)
SYSTEM_PROMPT == "You are an expert curriculum designer and educational content creator. \nYour task is to create comprehensive, well-structured course syllabi that are pedagogically sound \nand engaging for learners. You should consider learning theory, proper pacing, and clear learning objectives.\n\nAlways respond with valid JSON following the exact schema provided."

\* CourseInput.to_dict
to_dict(course_input) ==
    JMap([k \in {"topic", "complexity", "age_group", "tone"} |-> course_input[k]])

\* The fixed block of requirements and the JSON schema that ends every prompt
\* (the code fence of the source is three backquotes, written ~~~ here).
RequirementsBlock ==
    <<"## Requirements:",
      "",
      "1. Create a well-structured syllabus with 4-8 modules",
      "2. Each module should have 3-6 lessons",
      "3. Include clear learning objectives for each lesson",
      "4. Provide estimated duration for each lesson (in minutes)",
      "5. Include course description, target audience, prerequisites, and overall learning outcomes",
      "6. Ensure logical progression from basic to advanced concepts",
      "7. Make the content engaging and appropriate for the specified audience",
      "",
      "## JSON Schema:",
      "",
      "Respond with a JSON object following this exact structure:",
      "",
      "~~~json",
      "{",
      "  \"course_title\": \"string\",",
      "  \"course_description\": \"string\",",
      "  \"target_audience\": \"string\",",
      "  \"prerequisites\": [\"string\"],",
      "  \"learning_outcomes\": [\"string\"],",
      "  \"total_duration_hours\": number,",
      "  \"modules\": [",
      "    {",
      "      \"title\": \"string\",",
      "      \"description\": \"string\",",
      "      \"order\": number,",
      "      \"lessons\": [",
      "        {",
      "          \"title\": \"string\",",
      "          \"description\": \"string\",",
      "          \"duration_minutes\": number,",
      "          \"learning_objectives\": [\"string\"]",
      "        }",
      "      ]",
      "    }",
      "  ]",
      "}",
      "~~~",
      "",
      "Provide ONLY the JSON response, no additional text or markdown formatting.">>

\* PromptHead with the tone bullet appended before the age-group bullet.
PromptHeadToneFirst(d) ==
    LET topic == dict_get(d, "topic", JStr(""))
        complexity == dict_get(d, "complexity", JNull)
        age_group == dict_get(d, "age_group", JNull)
        tone == dict_get(d, "tone", JNull)
    IN  <<"Create a comprehensive course syllabus for the topic: **" \o PyStr(topic) \o "**",
          "">>
        \o (IF Truthy(complexity)
            THEN <<"- **Complexity Level**: " \o PyStr(complexity)>> ELSE <<>>)
        \o (IF Truthy(tone) THEN <<"- **Tone/Style**: " \o PyStr(tone)>> ELSE <<>>)
        \o (IF Truthy(age_group)
            THEN <<"- **Target Age Group**: " \o PyStr(age_group)>> ELSE <<>>)
        \o (IF Truthy(complexity) \/ Truthy(age_group) \/ Truthy(tone) THEN <<"">> ELSE <<>>)

\* The lines build_syllabus_prompt puts before the requirements: the topic and
\* a bullet for each optional field that is set.
PromptHead(d) ==
    LET topic == dict_get(d, "topic", JStr(""))
        complexity == dict_get(d, "complexity", JNull)
        age_group == dict_get(d, "age_group", JNull)
        tone == dict_get(d, "tone", JNull)
    IN  <<"Create a comprehensive course syllabus for the topic: **" \o PyStr(topic) \o "**",
          "">>
        \o (IF Truthy(complexity)
            THEN <<"- **Complexity Level**: " \o PyStr(complexity)>> ELSE <<>>)
        \o (IF Truthy(age_group)
            THEN <<"- **Target Age Group**: " \o PyStr(age_group)>> ELSE <<>>)
        \o (IF Truthy(tone) THEN <<"- **Tone/Style**: " \o PyStr(tone)>> ELSE <<>>)
        \o (IF Truthy(complexity) \/ Truthy(age_group) \/ Truthy(tone) THEN <<"">> ELSE <<>>)

\* prompt_parts as build_syllabus_prompt has built it when it returns.
PromptParts(d) == PromptHead(d) \o RequirementsBlock

\* "\n".join of a list of strings.
RECURSIVE JoinStrings(_, _)
JoinStrings(parts, i) ==
    IF i > Len(parts) THEN ""
    ELSE IF i = Len(parts) THEN parts[i]
    ELSE parts[i] \o "\n" \o JoinStrings(parts, i + 1)

\* The requirements block joined, the same in every prompt.
RequirementsText == JoinStrings(RequirementsBlock, 1)

\* SyllabusPromptBuilder.build_syllabus_prompt: "\n".join(prompt_parts), joined
\* here as the head, a line break, and the requirements.
build_syllabus_prompt(d) ==
    JoinStrings(PromptHead(d), 1) \o "\n" \o RequirementsText

\* The record of one call of the provider's generate_syllabus.
GenerateCall(system_prompt, user_prompt) ==
    [method |-> "generate_syllabus", system_prompt |-> system_prompt,
     user_prompt |-> user_prompt]

\* generate_syllabus of the service, calling the provider again when it fails.
service_generate_syllabus_retry(p, pkgs, nbuilt, course_input, vendor) ==
    LET system_prompt == SYSTEM_PROMPT
        user_prompt == build_syllabus_prompt(to_dict(course_input))
        g == provider_generate_syllabus(p, pkgs, nbuilt, system_prompt, user_prompt, vendor)
        c == GenerateCall(system_prompt, user_prompt)
    IN  [res |-> IF g.res.st = "raise" THEN g.res ELSE parse_syllabus_data(g.res.val),
         returned |-> g.res, provider |-> g.provider, built |-> g.built,
         sent |-> IF g.res.st = "raise" THEN g.sent \o g.sent ELSE g.sent,
         called |-> IF g.res.st = "raise" THEN <<c, c>> ELSE <<c>>]

\* SyllabusService.generate_syllabus: the prompts are built, the provider is
\* called, and what it returns is parsed; an exception of the provider or of the
\* parser propagates.
service_generate_syllabus(p, pkgs, nbuilt, course_input, vendor) ==
    LET system_prompt == SYSTEM_PROMPT
        user_prompt == build_syllabus_prompt(to_dict(course_input))
        g == provider_generate_syllabus(p, pkgs, nbuilt, system_prompt, user_prompt, vendor)
    IN  [res |-> IF g.res.st = "raise" THEN g.res ELSE parse_syllabus_data(g.res.val),
         returned |-> g.res, provider |-> g.provider, built |-> g.built,
         sent |-> g.sent,
         called |-> <<GenerateCall(system_prompt, user_prompt)>>]

(***************************************************************************)
(* The decoded responses the parser is exercised on.  A provider returns   *)
(* whatever JSON the model wrote: any key may be missing, null or of the   *)
(* wrong type.  Variety is taken one level at a time: at the top level, in *)
(* the modules, in the lessons.                                            *)
(***************************************************************************)
\* Every subset of a lesson's keys left out, and every kind of value given.
LessonChoices ==
    [title : {Missing, JStr("L")},
     description : {Missing, JStr("d")},
     duration_minutes : {Missing, JNum(30)},
     learning_objectives : {Missing, JList(<<JStr("o")>>)}]
    \cup
    [title : {JStr("L")},
     description : {JStr("d")},
     duration_minutes : {JNull, JNum(0), JNum(30)},
     learning_objectives : {JNull} \cup StrLists("o")]

\* What an element of a "lessons" list may be: a mapping, or no mapping at all.
LessonVals == {MkMap(c) : c \in LessonChoices} \cup {JNull, JStr("lesson")}

ModuleChoices ==
    [title : {Missing, JStr("M")},
     description : {Missing, JStr("d")},
     order : {Missing, JNum(1), JNum(2)},
     lessons : {Missing, JNull, JList(<<>>), JList(<<GoodLesson>>)}]

\* What an element of a "modules" list may be.
ModuleVals == {MkMap(c) : c \in ModuleChoices} \cup {JNull, JStr("module")}

TopChoices ==
    [course_title : {Missing, JNull, JStr("T")},
     course_description : {Missing, JNull, JStr("D")},
     target_audience : {Missing, JNull, JStr(""), JStr("A")},
     prerequisites : {Missing, JNull} \cup StrLists("p"),
     learning_outcomes : {Missing, JNull} \cup StrLists("o"),
     total_duration_hours : {Missing, JNull, JNum(0), JNum(10)},
     modules : {Missing, JNull, JNum(3), JStr(""), JMap(<<>>),
                JList(<<>>), JList(<<GoodModule>>)}]

\* A minimal response around a given "modules" list.
WithModules(ms) == MkMap([course_title |-> JStr("T"), modules |-> JList(ms)])

\* A minimal response around one module with a given "lessons" list.
WithLessons(ls) == WithModules(<<MkMap([title |-> JStr("M"), lessons |-> JList(ls)])>>)

\* data is one of the decoded responses.
IsDecodedResponse(d) ==
    \/ \E c \in TopChoices : d = MkMap(c)
    \/ d \in {JList(<<>>), JStr("text")}
    \/ \E n \in 1..MaxModules : \E ms \in [1..n -> ModuleVals] : d = WithModules(ms)
    \/ \E n \in 1..MaxLessons : \E ls \in [1..n -> LessonVals] : d = WithLessons(ls)

(***************************************************************************)
(* A provider instance in use: created by the factory, then any sequence   *)
(* of validate_api_key and generate_syllabus calls (the latter through the *)
(* service), with the vendor answering each request in any way it can.     *)
(***************************************************************************)
\* No call made yet.
NoCall == [op |-> "none"]
\* No response decoded yet.
NoData == [kind |-> "none"]

\* The process has not exited.
Running == [exited |-> FALSE]
\* sys.exit(status), or the end of the script (status 0).
Exited(status) == [exited |-> TRUE, status |-> status]

\* No CourseInput, no credentials.
NoInput == [topic |-> JNull, complexity |-> JNull, age_group |-> JNull, tone |-> JNull]
NoCreds == [provider_name |-> <<>>, api_key |-> JNull, model |-> JNull]
NoConfig == [loaded |-> FALSE]
EmptyFs == [dir |-> FALSE, files |-> {}]

\* main is not part of the behaviour.
MainNotRun ==
    /\ pc = "idle"
    /\ config = NoConfig
    /\ collected = NoInput
    /\ creds = NoCreds
    /\ exit = Running
    /\ stdout = <<>>
    /\ fs = EmptyFs

ProviderUnused ==
    /\ installed = {}
    /\ provider = NoProvider
    /\ built = 0
    /\ calls = <<>>
    /\ requests = <<>>
    /\ last = NoCall

\* The uppercase of a lowercase letter.
UpperOf(ch) ==
    IF \E n \in DOMAIN LowerCase : LowerCase[n] = ch
    THEN UpperCase[CHOOSE n \in DOMAIN LowerCase : LowerCase[n] = ch]
    ELSE ch

\* Every casing of a lowercase word.
Casings(w) ==
    {[i \in DOMAIN w |-> IF i \in U THEN UpperOf(w[i]) ELSE w[i]] : U \in SUBSET DOMAIN w}

\* The names the factory is asked for.
ProviderNames ==
    Casings(openai) \cup Casings(gemini)
    \cup {<<"c", "l", "a", "u", "d", "e">>, <<"C", "l", "a", "u", "d", "e">>,
          <<>>, <<"g", "p", "t">>, openai \o <<" ">>, <<"o", "p", "e", "n", "-", "a", "i">>}

\* The course inputs the service is called with: the topic alone, or with every
\* optional field set.
CourseInputs ==
    {[topic |-> JStr("Intro to Web Development"), complexity |-> JNull,
      age_group |-> JNull, tone |-> JNull],
     [topic |-> JStr("Intro to Web Development"), complexity |-> JStr("Beginner"),
      age_group |-> JStr("Adults"), tone |-> JStr("Casual")]}

\* What a vendor request may do.
ValidateOutcomes(cls) ==
    {Return("response")} \cup (IF cls = "GeminiProvider" THEN {Return("None")} ELSE {})
    \cup {Raise(e) : e \in VendorErrors \cup {Interrupt}}
GenerateOutcomes ==
    {Return(b) : b \in Bodies} \cup {Raise(e) : e \in VendorErrors \cup {Interrupt}}

InitProvider ==
    /\ installed \in SUBSET {"openai", "google.generativeai"}
    /\ provider = NoProvider
    /\ built = 0
    /\ calls = <<>>
    /\ requests = <<>>
    /\ last = NoCall
    /\ data = NoData
    /\ parsed = NotCalled
    /\ md_lines = NotCalled
    /\ rendered = NotCalled
    /\ rendered_again = NotCalled
    /\ MainNotRun

\* ProviderFactory.create_provider(provider_name, api_key, model)
CreateProvider ==
    /\ last = NoCall
    /\ \E name \in ProviderNames, model \in {JNull, JStr("custom-model")} :
           \E r \in {create_provider(name, JStr("secret-key"), model)} :
               /\ provider' = IF r.st = "ok" THEN r.val ELSE provider
               /\ last' = [op |-> "create_provider", name |-> name, model |-> model,
                           res |-> r]
    /\ UNCHANGED <<installed, built, calls, requests, parseVars, mainVars>>

\* provider.validate_api_key()
ValidateApiKey ==
    /\ provider # NoProvider
    /\ Len(calls) < MaxCalls
    /\ \E vendor \in ValidateOutcomes(provider.cls) :
           \E r \in {validate_api_key(provider, installed, built, vendor)} :
               /\ provider' = r.provider
               /\ built' = r.built
               /\ requests' = requests \o r.sent
               /\ last' = [op |-> "validate_api_key", vendor |-> vendor,
                           sent |-> r.sent, res |-> r.res]
    /\ calls' = Append(calls, [method |-> "validate_api_key"])
    /\ UNCHANGED <<installed, parseVars, mainVars>>

\* SyllabusService(provider).generate_syllabus(course_input)
GenerateSyllabus ==
    /\ provider # NoProvider
    /\ Len(calls) < MaxCalls
    /\ \E course_input \in CourseInputs, vendor \in GenerateOutcomes :
           \E r \in {service_generate_syllabus(provider, installed, built, course_input,
                                               vendor)} :
               /\ provider' = r.provider
               /\ built' = r.built
               /\ requests' = requests \o r.sent
               /\ calls' = calls \o r.called
               /\ last' = [op |-> "generate_syllabus", course_input |-> course_input,
                           vendor |-> vendor, sent |-> r.sent, called |-> r.called,
                           returned |-> r.returned, res |-> r.res]
               /\ data' = IF r.returned.st = "ok" THEN r.returned.val ELSE data
               /\ parsed' = IF r.returned.st = "ok" THEN r.res ELSE parsed
    /\ UNCHANGED <<installed, md_lines, rendered, rendered_again, mainVars>>

NextProvider == CreateProvider \/ ValidateApiKey \/ GenerateSyllabus

SpecProvider == InitProvider /\ [][NextProvider]_vars

(***************************************************************************)
(* The parser and the renderer applied to a decoded response.              *)
(***************************************************************************)
InitParse ==
    /\ IsDecodedResponse(data)
    /\ parsed = NotCalled
    /\ md_lines = NotCalled
    /\ rendered = NotCalled
    /\ rendered_again = NotCalled
    /\ ProviderUnused
    /\ MainNotRun

\* syllabus = self._parse_syllabus_data(syllabus_data)
Parse ==
    /\ parsed = NotCalled
    /\ parsed' = parse_syllabus_data(data)
    /\ UNCHANGED <<data, md_lines, rendered, rendered_again, provVars, mainVars>>

\* syllabus.to_markdown()
Render ==
    /\ parsed.st = "ok"
    /\ rendered = NotCalled
    /\ md_lines' = MdLines(parsed.val)
    /\ rendered' = to_markdown(parsed.val)
    /\ parsed' = Return(to_markdown_self(parsed.val))
    /\ UNCHANGED <<data, rendered_again, provVars, mainVars>>

\* syllabus.to_markdown(), once more on the same object
RenderAgain ==
    /\ parsed.st = "ok"
    /\ rendered # NotCalled
    /\ rendered_again = NotCalled
    /\ rendered_again' = to_markdown(parsed.val)
    /\ parsed' = Return(to_markdown_self(parsed.val))
    /\ UNCHANGED <<data, md_lines, rendered, provVars, mainVars>>

NextParse == Parse \/ Render \/ RenderAgain

SpecParse == InitParse /\ [][NextParse]_vars

(***************************************************************************)
(* A run of main.py: the configuration is loaded, the course inputs are    *)
(* typed, the credentials are chosen, the provider is created and its key  *)
(* validated, the syllabus is generated, shown and saved.                  *)
(***************************************************************************)
Whitespace == {" ", "\t"}
Digits == <<"0", "1", "2", "3", "4", "5", "6", "7", "8", "9">>

\* str.strip(): leading and trailing whitespace removed.
str_strip(s) ==
    LET keep == {i \in DOMAIN s : s[i] \notin Whitespace}
    IN  IF keep = {} THEN <<>>
        ELSE SubSeq(s, CHOOSE i \in keep : \A j \in keep : i <= j,
                       CHOOSE i \in keep : \A j \in keep : i >= j)

\* str.upper(): every cased character replaced by its uppercase.
str_upper(name) ==
    [i \in DOMAIN name |->
        IF \E n \in DOMAIN LowerCase : LowerCase[n] = name[i]
        THEN UpperCase[CHOOSE n \in DOMAIN LowerCase : LowerCase[n] = name[i]]
        ELSE name[i]]

\* The str made of the characters cs.
RECURSIVE Text(_)
Text(cs) == IF cs = <<>> THEN "" ELSE Head(cs) \o Text(Tail(cs))

\* The course titles a syllabus may carry, as their characters: every title of
\* up to MaxTitleLen characters over a small alphabet (cased letters, a digit,
\* whitespace, an underscore, punctuation), and the titles of the response
\* bodies.
TitleAlphabet == {"A", "b", "7", " ", "_", "!"}
Titles ==
    UNION {[1..n -> TitleAlphabet] : n \in 0..MaxTitleLen}
    \cup {<<"T">>, <<"W", "e", "b", " ", "D", "e", "v", "!">>}

\* Each title as a str, with its characters.
TitleTexts == {<<Text(cs), cs>> : cs \in Titles}

\* The characters of a str ("for c in filename").
Characters(text) == (CHOOSE p \in TitleTexts : p[1] = text)[2]

\* c.isalnum() and c.isspace() of one character.
isalnum(c) ==
    \/ \E n \in DOMAIN LowerCase : LowerCase[n] = c
    \/ \E n \in DOMAIN UpperCase : UpperCase[n] = c
    \/ \E n \in DOMAIN Digits : Digits[n] = c
isspace(c) == c \in Whitespace

\* str.split(): the words between runs of whitespace.
RECURSIVE str_split(_, _, _)
str_split(cs, word, words) ==
    IF cs = <<>> THEN (IF word = <<>> THEN words ELSE Append(words, word))
    ELSE IF isspace(Head(cs))
    THEN str_split(Tail(cs), <<>>, IF word = <<>> THEN words ELSE Append(words, word))
    ELSE str_split(Tail(cs), Append(word, Head(cs)), words)

\* "_".join(words)
RECURSIVE JoinWords(_)
JoinWords(words) ==
    IF words = <<>> THEN <<>>
    ELSE IF Len(words) = 1 THEN words[1]
    ELSE words[1] \o <<"_">> \o JoinWords(Tail(words))

\* save_filename that turns each whitespace character into "_" (replace, no split).
save_filename_replace(title) ==
    LET lowered == str_lower(title)
        kept == SelectSeq(lowered, LAMBDA c : isalnum(c) \/ isspace(c))
    IN  Text([i \in DOMAIN kept |-> IF isspace(kept[i]) THEN "_" ELSE kept[i]])
        \o "_syllabus.md"

\* The filename save_syllabus derives from the course title: lowercased, only
\* the alphanumerics and the whitespace kept, the words joined by "_".
save_filename(title) ==
    LET lowered == str_lower(title)
        kept == SelectSeq(lowered, LAMBDA c : isalnum(c) \/ isspace(c))
    IN  Text(JoinWords(str_split(kept, <<>>, <<>>))) \o "_syllabus.md"

\* save_syllabus(syllabus) on the file system files: the directory is made
\* first; the title is lowercased (a title that is no str has no lower());
\* opening the file may fail with an OSError (disk); the markdown is written.
save_syllabus(s, files, disk) ==
    IF s.course_title.kind # "str"
    THEN [res |-> Raise(Exc("AttributeError")), fs |-> [files EXCEPT !.dir = TRUE],
          wrote |-> FALSE]
    ELSE IF disk.st = "raise"
    THEN [res |-> disk, fs |-> [files EXCEPT !.dir = TRUE], wrote |-> FALSE]
    ELSE LET filename == save_filename(Characters(s.course_title.val))
         IN  [res |-> Return("output/" \o filename),
              fs |-> [dir |-> TRUE,
                      files |-> files.files \cup
                                    {[dir |-> "output", name |-> filename,
                                      content |-> to_markdown(s).val]}],
              wrote |-> TRUE]

\* What the Display methods and main's print of the cancellation write.
Info(text) == [level |-> "INFO", text |-> text]
Error(text) == [level |-> "ERROR", text |-> text]
Success(text) == [level |-> "SUCCESS", text |-> text]
Plain(text) == [level |-> "", text |-> text]
ErrorOccurred(exc) == [level |-> "ERROR", text |-> "An error occurred", exc |-> exc]
Traceback(exc) == [level |-> "traceback", text |-> "Traceback", exc |-> exc]
Cancelled == Plain("Operation cancelled by user.")

\* The environments Config.from_env reads.  AI_PROVIDER unset is "openai";
\* a key variable is unset (None), set to nothing, or set.  The model variables
\* are left unset.
Environments ==
    [ai_provider : {openai, gemini, <<"O", "p", "e", "n", "A", "I">>,
                    <<"c", "l", "a", "u", "d", "e">>},
     openai_api_key : {JNull, JStr(""), JStr("sk-openai")},
     gemini_api_key : {JNull, JStr(""), JStr("gemini-key")},
     openai_model : {JStr("gpt-4o-mini")},
     gemini_model : {JStr("gemini-1.5-flash")},
     loaded : {TRUE}]

\* Config.get_api_key(provider)
get_api_key(cfg, provider_name) ==
    LET p == IF provider_name # <<>> THEN provider_name ELSE cfg.ai_provider
    IN  IF p = openai THEN cfg.openai_api_key
        ELSE IF p = gemini THEN cfg.gemini_api_key
        ELSE JNull

\* Config.get_model(provider)
get_model(cfg, provider_name) ==
    LET p == IF provider_name # <<>> THEN provider_name ELSE cfg.ai_provider
    IN  IF p = openai THEN cfg.openai_model
        ELSE IF p = gemini THEN cfg.gemini_model
        ELSE JStr("")

\* setup_api_keys that falls back to the other provider but keeps the key it
\* had looked up.
setup_api_keys_fallback_keeps_key(cfg) ==
    LET p == cfg.ai_provider
        api_key == get_api_key(cfg, p)
    IN  IF Truthy(api_key) THEN Return([provider_name |-> p, api_key |-> api_key])
        ELSE IF p = openai /\ Truthy(cfg.gemini_api_key)
        THEN Return([provider_name |-> gemini, api_key |-> api_key])
        ELSE IF p = gemini /\ Truthy(cfg.openai_api_key)
        THEN Return([provider_name |-> openai, api_key |-> api_key])
        ELSE Raise([type |-> "ValueError", msg |-> "No API key found for", name |-> p])

\* setup_api_keys when the environment holds a key: the configured provider
\* with its key, else the other provider when that one has a key.
setup_api_keys(cfg) ==
    LET p == cfg.ai_provider
        api_key == get_api_key(cfg, p)
    IN  IF Truthy(api_key) THEN Return([provider_name |-> p, api_key |-> api_key])
        ELSE IF p = openai /\ Truthy(cfg.gemini_api_key)
        THEN Return([provider_name |-> gemini, api_key |-> cfg.gemini_api_key])
        ELSE IF p = gemini /\ Truthy(cfg.openai_api_key)
        THEN Return([provider_name |-> openai, api_key |-> cfg.openai_api_key])
        ELSE Raise([type |-> "ValueError", msg |-> "No API key found for", name |-> p])

\* The menus of collect_course_inputs.
complexity_map == (<<"1">> :> "Beginner") @@ (<<"2">> :> "Intermediate")
                  @@ (<<"3">> :> "Advanced")
tone_map == (<<"1">> :> "Academic") @@ (<<"2">> :> "Casual")
            @@ (<<"3">> :> "Professional") @@ (<<"4">> :> "Humorous")

\* menu.get(choice) if choice else None
MenuChoice(menu, choice) ==
    IF choice # <<>> /\ choice \in DOMAIN menu THEN JStr(menu[choice]) ELSE JNull

\* The lines a user may type at a prompt.
TopicLines == {<<>>, <<" ">>, <<"A", "I">>, <<" ", "A", "I", " ">>}
ChoiceLines == {<<>>, <<"1">>, <<" ", "2">>, <<"9">>}
AgeLines == {<<>>, <<"T", "e", "e", "n", "s">>}
KeyLines == {<<>>, <<"s", "k">>}

\* The except clauses of main, applied to an exception raised in its try block
\* after out was printed: the interrupt ends the run with status 0, any other
\* Exception with the error banner, the traceback and status 1.
MainExcept(exc, out) ==
    /\ pc' = "done"
    /\ IF IsInstance(exc, "KeyboardInterrupt")
       THEN /\ stdout' = Append(out, Cancelled)
            /\ exit' = Exited(0)
       ELSE /\ stdout' = out \o <<ErrorOccurred(exc), Traceback(exc)>>
            /\ exit' = Exited(1)

InitMain ==
    /\ installed \in SUBSET {"openai", "google.generativeai"}
    /\ provider = NoProvider
    /\ built = 0
    /\ calls = <<>>
    /\ requests = <<>>
    /\ last = NoCall
    /\ data = NoData
    /\ parsed = NotCalled
    /\ md_lines = NotCalled
    /\ rendered = NotCalled
    /\ rendered_again = NotCalled
    /\ pc = "start"
    /\ config = NoConfig
    /\ collected = NoInput
    /\ creds = NoCreds
    /\ exit = Running
    /\ stdout = <<>>
    /\ fs = EmptyFs

\* LoadConfig in a main that makes the output directory when it starts.
LoadConfigMakesDir ==
    /\ pc = "start"
    /\ config' \in Environments
    /\ pc' = "topic"
    /\ fs' = [fs EXCEPT !.dir = TRUE]
    /\ UNCHANGED <<parseVars, provVars, collected, creds, exit, stdout>>

\* config = Config.from_env()
LoadConfig ==
    /\ pc = "start"
    /\ config' \in Environments
    /\ pc' = "topic"
    /\ UNCHANGED <<parseVars, provVars, collected, creds, exit, stdout, fs>>

\* ReadTopic without the while loop: the topic is taken as typed.
ReadTopicNoLoop ==
    /\ pc = "topic"
    /\ \E line \in TopicLines :
           /\ last' = [op |-> "input", prompt |-> "topic", line |-> line]
           /\ collected' = [collected EXCEPT !.topic = JStr(Text(str_strip(line)))]
           /\ pc' = "complexity"
    /\ UNCHANGED <<parseVars, installed, provider, built, calls, requests, config, creds,
                   exit, stdout, fs>>

\* topic = input(...).strip(), asked again while it is empty; last is the call
\* of input with the line typed
ReadTopic ==
    /\ pc = "topic"
    /\ \E line \in TopicLines :
           /\ last' = [op |-> "input", prompt |-> "topic", line |-> line]
           /\ LET topic == str_strip(line)
              IN  IF topic = <<>>
                  THEN UNCHANGED <<pc, collected>>
                  ELSE /\ collected' = [collected EXCEPT !.topic = JStr(Text(topic))]
                       /\ pc' = "complexity"
    /\ UNCHANGED <<parseVars, installed, provider, built, calls, requests, config, creds,
                   exit, stdout, fs>>

\* complexity = complexity_map.get(complexity_choice) if complexity_choice else None
ReadComplexity ==
    /\ pc = "complexity"
    /\ \E line \in ChoiceLines :
           collected' = [collected EXCEPT
                            !.complexity = MenuChoice(complexity_map, str_strip(line))]
    /\ pc' = "age_group"
    /\ UNCHANGED <<parseVars, provVars, config, creds, exit, stdout, fs>>

\* age_group = input(...).strip(), None when empty
ReadAgeGroup ==
    /\ pc = "age_group"
    /\ \E line \in AgeLines :
           LET age_group == str_strip(line)
           IN  collected' = [collected EXCEPT
                                !.age_group = IF age_group = <<>> THEN JNull
                                              ELSE JStr(Text(age_group))]
    /\ pc' = "tone"
    /\ UNCHANGED <<parseVars, provVars, config, creds, exit, stdout, fs>>

\* tone = tone_map.get(tone_choice) if tone_choice else None; the CourseInput
\* is returned
ReadTone ==
    /\ pc = "tone"
    /\ \E line \in ChoiceLines :
           collected' = [collected EXCEPT !.tone = MenuChoice(tone_map, str_strip(line))]
    /\ pc' = "setup"
    /\ UNCHANGED <<parseVars, provVars, config, creds, exit, stdout, fs>>

\* Display.print_course_inputs(course_input), then setup_api_keys(config) up to
\* its return or its first prompt
SetupApiKeys ==
    /\ pc = "setup"
    /\ LET out == stdout \o <<[level |-> "", text |-> "Collected Information:",
                               inputs |-> collected],
                              Info("Setting up AI provider...")>>
       IN  IF ~Truthy(config.openai_api_key) /\ ~Truthy(config.gemini_api_key)
           THEN /\ stdout' = Append(out, Info("No API keys found in environment variables."))
                /\ pc' = "select_provider"
                /\ UNCHANGED <<creds, exit>>
           ELSE \E r \in {setup_api_keys(config)} :
                    IF r.st = "raise"
                    THEN MainExcept(r.exc, out) /\ UNCHANGED creds
                    ELSE /\ creds' = [creds EXCEPT !.provider_name = r.val.provider_name,
                                                   !.api_key = r.val.api_key]
                         /\ stdout' = out
                         /\ pc' = "create"
                         /\ UNCHANGED exit
    /\ UNCHANGED <<parseVars, provVars, config, collected, fs>>

\* choice = input("Select provider (1-2): ").strip()
SelectProvider ==
    /\ pc = "select_provider"
    /\ \E line \in ChoiceLines :
           LET choice == str_strip(line)
           IN  IF choice = <<"1">>
               THEN /\ creds' = [creds EXCEPT !.provider_name = openai]
                    /\ pc' = "enter_key"
                    /\ UNCHANGED <<exit, stdout>>
               ELSE IF choice = <<"2">>
               THEN /\ creds' = [creds EXCEPT !.provider_name = gemini]
                    /\ pc' = "enter_key"
                    /\ UNCHANGED <<exit, stdout>>
               ELSE /\ MainExcept([type |-> "ValueError",
                                   msg |-> "Invalid provider selection"], stdout)
                    /\ UNCHANGED creds
    /\ UNCHANGED <<parseVars, provVars, config, collected, fs>>

\* api_key = input("Enter your ... API key: ").strip(); setup_api_keys returns
EnterApiKey ==
    /\ pc = "enter_key"
    /\ \E line \in KeyLines :
           creds' = [creds EXCEPT !.api_key = JStr(Text(str_strip(line)))]
    /\ pc' = "create"
    /\ UNCHANGED <<parseVars, provVars, config, collected, exit, stdout, fs>>

\* model = config.get_model(provider_name);
\* provider = ProviderFactory.create_provider(provider_name, api_key, model)
MainCreateProvider ==
    /\ pc = "create"
    /\ LET model == get_model(config, creds.provider_name)
           out == Append(stdout, [level |-> "INFO", text |-> "Using",
                                  provider |-> str_upper(creds.provider_name),
                                  model |-> model])
       IN  /\ creds' = [creds EXCEPT !.model = model]
           /\ \E r \in {create_provider(creds.provider_name, creds.api_key, model)} :
                  /\ last' = [op |-> "create_provider", name |-> creds.provider_name,
                              model |-> model, res |-> r]
                  /\ IF r.st = "raise"
                     THEN MainExcept(r.exc, out) /\ UNCHANGED provider
                     ELSE /\ provider' = r.val
                          /\ stdout' = Append(out, Info("Validating API key..."))
                          /\ pc' = "validate"
                          /\ UNCHANGED exit
    /\ UNCHANGED <<installed, built, calls, requests, parseVars, config, collected, fs>>

\* MainValidateApiKey without the return: the error is printed and main goes on.
MainValidateApiKeyNoReturn ==
    /\ pc = "validate"
    /\ \E vendor \in ValidateOutcomes(provider.cls) :
           \E r \in {validate_api_key(provider, installed, built, vendor)} :
               /\ provider' = r.provider
               /\ built' = r.built
               /\ requests' = requests \o r.sent
               /\ last' = [op |-> "validate_api_key", vendor |-> vendor,
                           sent |-> r.sent, res |-> r.res]
               /\ IF r.res.st = "raise"
                  THEN MainExcept(r.res.exc, stdout)
                  ELSE IF ~r.res.val
                  THEN /\ stdout' = Append(stdout,
                                           Error("Invalid API key. Please check your credentials."))
                       /\ pc' = "generate"
                       /\ UNCHANGED exit
                  ELSE /\ stdout' = Append(stdout,
                                           Info("Generating syllabus... This may take a moment."))
                       /\ pc' = "generate"
                       /\ UNCHANGED exit
    /\ calls' = Append(calls, [method |-> "validate_api_key"])
    /\ UNCHANGED <<installed, parseVars, config, collected, creds, fs>>

\* if not provider.validate_api_key(): print_error(...); return
MainValidateApiKey ==
    /\ pc = "validate"
    /\ \E vendor \in ValidateOutcomes(provider.cls) :
           \E r \in {validate_api_key(provider, installed, built, vendor)} :
               /\ provider' = r.provider
               /\ built' = r.built
               /\ requests' = requests \o r.sent
               /\ last' = [op |-> "validate_api_key", vendor |-> vendor,
                           sent |-> r.sent, res |-> r.res]
               /\ IF r.res.st = "raise"
                  THEN MainExcept(r.res.exc, stdout)
                  ELSE IF ~r.res.val
                  THEN /\ stdout' = Append(stdout,
                                           Error("Invalid API key. Please check your credentials."))
                       /\ pc' = "done"
                       /\ exit' = Exited(0)
                  ELSE /\ stdout' = Append(stdout,
                                           Info("Generating syllabus... This may take a moment."))
                       /\ pc' = "generate"
                       /\ UNCHANGED exit
    /\ calls' = Append(calls, [method |-> "validate_api_key"])
    /\ UNCHANGED <<installed, parseVars, config, collected, creds, fs>>

\* syllabus = syllabus_service.generate_syllabus(course_input)
MainGenerateSyllabus ==
    /\ pc = "generate"
    /\ \E vendor \in GenerateOutcomes :
           \E r \in {service_generate_syllabus(provider, installed, built, collected,
                                               vendor)} :
               /\ provider' = r.provider
               /\ built' = r.built
               /\ requests' = requests \o r.sent
               /\ calls' = calls \o r.called
               /\ last' = [op |-> "generate_syllabus", course_input |-> collected,
                           vendor |-> vendor, sent |-> r.sent, called |-> r.called,
                           returned |-> r.returned, res |-> r.res]
               /\ data' = IF r.returned.st = "ok" THEN r.returned.val ELSE data
               /\ parsed' = IF r.returned.st = "ok" THEN r.res ELSE parsed
               /\ IF r.res.st = "raise"
                  THEN MainExcept(r.res.exc, stdout)
                  ELSE pc' = "display" /\ UNCHANGED <<exit, stdout>>
    /\ UNCHANGED <<installed, md_lines, rendered, rendered_again, config, collected,
                   creds, fs>>

\* Display.print_syllabus(syllabus)
PrintSyllabus ==
    /\ pc = "display"
    /\ md_lines' = MdLines(parsed.val)
    /\ \E r \in {to_markdown(parsed.val)} :
           /\ rendered' = r
           /\ LET out == Append(stdout, Plain("Generated Syllabus"))
              IN  IF r.st = "raise"
                  THEN MainExcept(r.exc, out)
                  ELSE /\ stdout' = Append(out, Plain(r.val))
                       /\ pc' = "save"
                       /\ UNCHANGED exit
    /\ parsed' = Return(to_markdown_self(parsed.val))
    /\ UNCHANGED <<data, rendered_again, provVars, config, collected, creds, fs>>

\* output_path = save_syllabus(syllabus); print_success(...); return syllabus
SaveSyllabus ==
    /\ pc = "save"
    /\ \E disk \in {Return("opened"), Raise(Exc("OSError"))} :
           \E r \in {save_syllabus(parsed.val, fs, disk)} :
               /\ fs' = r.fs
               /\ IF r.wrote
                  THEN /\ rendered_again' = to_markdown(parsed.val)
                       /\ parsed' = Return(to_markdown_self(parsed.val))
                       /\ stdout' = Append(stdout, [level |-> "SUCCESS",
                                                    text |-> "Syllabus saved to",
                                                    path |-> r.res.val])
                       /\ pc' = "done"
                       /\ exit' = Exited(0)
                  ELSE /\ MainExcept(r.res.exc, stdout)
                       /\ UNCHANGED <<parsed, rendered_again>>
    /\ UNCHANGED <<data, md_lines, rendered, provVars, config, collected, creds>>

\* Ctrl-C while main runs: KeyboardInterrupt is raised in its try block.
KeyboardInterrupt ==
    /\ pc \notin {"idle", "done"}
    /\ MainExcept(Interrupt, stdout)
    /\ UNCHANGED <<parseVars, provVars, config, collected, creds, fs>>

\* The input ends (Ctrl-D, a closed stdin): input() raises EOFError.
EndOfInput ==
    /\ pc \in {"topic", "complexity", "age_group", "tone", "select_provider", "enter_key"}
    /\ MainExcept(Exc("EOFError"), stdout)
    /\ UNCHANGED <<parseVars, provVars, config, collected, creds, fs>>

Next ==
    \/ LoadConfig
    \/ ReadTopic
    \/ ReadComplexity
    \/ ReadAgeGroup
    \/ ReadTone
    \/ SetupApiKeys
    \/ SelectProvider
    \/ EnterApiKey
    \/ MainCreateProvider
    \/ MainValidateApiKey
    \/ MainGenerateSyllabus
    \/ PrintSyllabus
    \/ SaveSyllabus
    \/ KeyboardInterrupt
    \/ EndOfInput

Spec == InitMain /\ [][Next]_vars

(***************************************************************************)
(* save_syllabus called on a syllabus with a given title.                  *)
(***************************************************************************)
\* The decoded response of a syllabus titled text, without modules.
Titled(text) == MkMap([course_title |-> JStr(text), modules |-> JList(<<>>)])

InitSave ==
    /\ \E cs \in Titles :
           /\ data = Titled(Text(cs))
           /\ parsed = parse_syllabus_data(Titled(Text(cs)))
    /\ md_lines = NotCalled
    /\ rendered = NotCalled
    /\ rendered_again = NotCalled
    /\ ProviderUnused
    /\ MainNotRun

\* save_syllabus(syllabus)
SaveFile ==
    /\ last = NoCall
    /\ \E disk \in {Return("opened"), Raise(Exc("OSError"))} :
           \E r \in {save_syllabus(parsed.val, fs, disk)} :
               /\ fs' = r.fs
               /\ last' = [op |-> "save_syllabus", res |-> r.res]
               /\ rendered' = IF r.wrote THEN to_markdown(parsed.val) ELSE rendered
               /\ parsed' = IF r.wrote THEN Return(to_markdown_self(parsed.val))
                             ELSE parsed
    /\ UNCHANGED <<data, md_lines, rendered_again, installed, provider, built, calls,
                   requests, pc, config, collected, creds, exit, stdout>>

NextSave == SaveFile

SpecSave == InitSave /\ [][NextSave]_vars

(***************************************************************************)
(* The prompt builder applied to a course input.                           *)
(***************************************************************************)
\* The course inputs the prompt is built from: each optional field unset
\* (None), empty, or set.
PromptInputs ==
    [topic : {JStr("Intro to Web Development"), JStr("AI")},
     complexity : {JNull, JStr(""), JStr("Beginner"), JStr("Advanced")},
     age_group : {JNull, JStr(""), JStr("Adults")},
     tone : {JNull, JStr(""), JStr("Casual"), JStr("Academic")}]

InitPrompt ==
    /\ collected \in PromptInputs
    /\ last = NoCall
    /\ installed = {}
    /\ provider = NoProvider
    /\ built = 0
    /\ calls = <<>>
    /\ requests = <<>>
    /\ data = NoData
    /\ parsed = NotCalled
    /\ md_lines = NotCalled
    /\ rendered = NotCalled
    /\ rendered_again = NotCalled
    /\ pc = "idle"
    /\ config = NoConfig
    /\ creds = NoCreds
    /\ exit = Running
    /\ stdout = <<>>
    /\ fs = EmptyFs

\* user_prompt = SyllabusPromptBuilder.build_syllabus_prompt(course_input.to_dict())
BuildPrompt ==
    /\ last = NoCall
    /\ last' = [op |-> "build_syllabus_prompt",
                parts |-> PromptParts(to_dict(collected)),
                res |-> build_syllabus_prompt(to_dict(collected))]
    /\ UNCHANGED <<parseVars, installed, provider, built, calls, requests, pc, config,
                   collected, creds, exit, stdout, fs>>

NextPrompt == BuildPrompt

SpecPrompt == InitPrompt /\ [][NextPrompt]_vars

(***************************************************************************)
(* Claims about the parser and the renderer (checked under SpecParse).     *)
(***************************************************************************)
TopKeys == {"course_title", "course_description", "target_audience", "prerequisites",
            "learning_outcomes", "total_duration_hours"}
LessonKeys == {"title", "description", "duration_minutes", "learning_objectives"}
ModuleKeys == {"title", "description", "order"}

\* The default each key takes when the response leaves it out.
TopDefault(k) ==
    CASE k \in {"course_title", "course_description"} -> JStr("")
      [] k \in {"prerequisites", "learning_outcomes"} -> JList(<<>>)
      [] OTHER -> JNull
ModuleDefault(k) ==
    CASE k = "title" -> JStr("") [] k = "order" -> JNum(0) [] OTHER -> JNull
LessonDefault(k) ==
    CASE k = "title" -> JStr("") [] k = "learning_objectives" -> JList(<<>>) [] OTHER -> JNull

\* C1: _parse_syllabus_data never raises for a JSON-decoded mapping, however
\* malformed or partial; it always returns a Syllabus.
C1_ParseNeverRaises ==
    (data.kind = "map" /\ parsed # NotCalled) => parsed.st = "ok"

\* C2: in every Syllabus the parser returns, each list field (prerequisites,
\* learning_outcomes, modules, every lessons, every learning_objectives) is a
\* list, never null.
C2_ListFieldsAreLists ==
    parsed.st = "ok" =>
        /\ parsed.val.prerequisites.kind = "list"
        /\ parsed.val.learning_outcomes.kind = "list"
        /\ \A i \in DOMAIN parsed.val.modules :
               \A j \in DOMAIN parsed.val.modules[i].lessons :
                   parsed.val.modules[i].lessons[j].learning_objectives.kind = "list"

\* A decoded response whose containers have the declared shape: a mapping whose
\* "modules", when given, is a list of mappings, each of whose "lessons", when
\* given, is a list of mappings.  Any key may be missing and any other value null.
IsListOfMaps(v) == v.kind = "list" /\ \A i \in DOMAIN v.val : v.val[i].kind = "map"
WellShaped(d) ==
    /\ d.kind = "map"
    /\ "modules" \in DOMAIN d.val =>
           /\ IsListOfMaps(d.val["modules"])
           /\ \A i \in DOMAIN d.val["modules"].val :
                  LET m == d.val["modules"].val[i]
                  IN  "lessons" \in DOMAIN m.val => IsListOfMaps(m.val["lessons"])

\* The value the claim gives field k: the given one, or the default.
Expected(m, k, default) == IF k \in DOMAIN m.val THEN m.val[k] ELSE default
RawList(m, k) == IF k \in DOMAIN m.val THEN m.val[k].val ELSE <<>>

\* The response of the specification's end-to-end example.
ExampleResponse == JMap([k \in {"course_title", "modules"} |->
                            IF k = "course_title" THEN JStr("T") ELSE JList(<<>>)])

HasLine(text) == \E i \in DOMAIN md_lines.val : md_lines.val[i] = JStr(text)

\* A field that is neither absent (null) nor empty ("" or []); a number that is
\* present is not empty, whatever its value.
NotEmpty(v) ==
    CASE v.kind = "null" -> FALSE
      [] v.kind = "str" -> v.val # ""
      [] v.kind = "list" -> v.val # <<>>
      [] OTHER -> TRUE

\* C10: to_markdown emits each optional section exactly when its field is neither
\* null nor empty, and a lesson's " (N min)" suffix exactly when duration_minutes
\* is present; a numeric field that is present counts as not empty.
C10_SectionsIffNotEmpty ==
    rendered.st = "ok" =>
        LET s == parsed.val
        IN  /\ HasLine("## Target Audience") <=> NotEmpty(s.target_audience)
            /\ HasLine("## Prerequisites") <=> NotEmpty(s.prerequisites)
            /\ HasLine("## Learning Outcomes") <=> NotEmpty(s.learning_outcomes)
            /\ NotEmpty(s.total_duration_hours) =>
                   HasLine("## Total Duration: " \o PyStr(s.total_duration_hours) \o " hours")
            /\ ~NotEmpty(s.total_duration_hours) =>
                   \A v \in {JNull, JNum(0), JNum(10)} :
                       ~HasLine("## Total Duration: " \o PyStr(v) \o " hours")
            /\ \A i \in DOMAIN s.modules : \A j \in DOMAIN s.modules[i].lessons :
                   LET l == s.modules[i].lessons[j]
                       line == ToString(j) \o ". " \o PyStr(l.title)
                   IN  IF NotEmpty(l.duration_minutes)
                       THEN HasLine(line \o " (" \o PyStr(l.duration_minutes) \o " min)")
                       ELSE HasLine(line)

\* The heading of the module at position n, and the numbered line of the lesson
\* at position n.
ModuleHeading(n, title) == JStr("### Module " \o ToString(n) \o ": " \o PyStr(title))
LessonLine(n, lesson) ==
    JStr(ToString(n) \o ". " \o PyStr(lesson.title) \o DurationSuffix(lesson))

\* A line that is a module heading, or a numbered lesson line, with any number.
IsModuleHeading(line) ==
    \E n \in 0..(MaxModules + 1), i \in DOMAIN parsed.val.modules :
        line = ModuleHeading(n, parsed.val.modules[i].title)
IsLessonLine(line) ==
    \E n \in 0..(MaxLessons + 1), i \in DOMAIN parsed.val.modules :
        \E j \in DOMAIN parsed.val.modules[i].lessons :
            line = LessonLine(n, parsed.val.modules[i].lessons[j])

\* The lesson lines of the modules from position i on, in order.
RECURSIVE LessonLinesFrom(_, _)
LessonLinesFrom(modules, i) ==
    IF i > Len(modules) THEN <<>>
    ELSE [j \in DOMAIN modules[i].lessons |-> LessonLine(j, modules[i].lessons[j])]
         \o LessonLinesFrom(modules, i + 1)

\* The syllabus with every module's order field set to n.
WithOrder(s, n) ==
    [s EXCEPT !.modules = [i \in DOMAIN s.modules |->
                              [s.modules[i] EXCEPT !.order = JNum(n)]]]

\* C11: to_markdown emits exactly one "### Module N: <title>" heading per
\* module, in the order of Syllabus.modules, N being the module's 1-based
\* position; the order field changes nothing (the syllabus with other order
\* fields renders identically); lessons are numbered by their 1-based position
\* in Module.lessons.
C11_ModulesNumberedByPosition ==
    md_lines.st = "ok" =>
        LET ms == parsed.val.modules
        IN  /\ SelectSeq(md_lines.val, IsModuleHeading)
                   = [i \in DOMAIN ms |-> ModuleHeading(i, ms[i].title)]
            /\ SelectSeq(md_lines.val, IsLessonLine) = LessonLinesFrom(ms, 1)
            /\ \A n \in 0..MaxModules : MdLines(WithOrder(parsed.val, n)) = md_lines

\* Two modules whose order fields are the reverse of their positions were rendered.
C11_Witness ==
    /\ md_lines.st = "ok"
    /\ Len(parsed.val.modules) = 2
    /\ parsed.val.modules[1].order = JNum(2)
    /\ parsed.val.modules[2].order = JNum(1)

NotJson == {ProseBody, EmptyBody}

ParseError(cause) ==
    [type |-> "ValueError", msg |-> "Failed to parse JSON response", cause |-> cause]
ProviderError(vendor_name, cause) ==
    [type |-> "Exception", msg |-> vendor_name \o " API error", cause |-> cause]

\* C4: for both providers, generate_syllabus fails with the parse error when the
\* vendor's body is not valid JSON and with the provider error "<vendor> API
\* error", wrapping the cause, when the vendor call fails; neither is reported
\* as the other and no vendor failure escapes unwrapped.
C4_FailuresClassified ==
    (last.op = "generate_syllabus" /\ last.sent # <<>>) =>
        /\ (last.vendor.st = "ok" /\ last.vendor.val \in NotJson) =>
               last.returned = Raise(ParseError(Exc("JSONDecodeError")))
        /\ (last.vendor.st = "raise" /\ last.vendor.exc \in VendorErrors) =>
               last.returned =
                   Raise(ProviderError(IF provider.cls = "OpenAIProvider" THEN "OpenAI"
                                       ELSE "Gemini", last.vendor.exc))
        /\ last.returned.st = "raise" => last.returned.exc \notin VendorErrors

\* A Gemini request failed with an authentication error and came back wrapped.
C4_Witness ==
    /\ last.op = "generate_syllabus"
    /\ provider.cls = "GeminiProvider"
    /\ last.sent # <<>>
    /\ last.vendor = Raise(Exc("AuthenticationError"))
    /\ last.returned.st = "raise"
    /\ last.returned.exc.msg = "Gemini API error"

\* C5: for both providers, validate_api_key raises no error: when obtaining the
\* client fails (the vendor package is missing) or the request fails it returns
\* false, and it returns true only when the request completed without error.
\* (The user's interrupt is not an error and passes through.)
C5_ValidateNeverRaises ==
    last.op = "validate_api_key" =>
        /\ last.res.st = "raise" =>
               /\ last.res.exc = Interrupt
               /\ last.vendor = Raise(Interrupt)
               /\ last.sent # <<>>
        /\ last.sent = <<>> => last.res = Return(FALSE)
        /\ (last.vendor.st = "raise" /\ last.vendor.exc \in VendorErrors) =>
               last.res = Return(FALSE)
        /\ last.res = Return(TRUE) => (last.sent # <<>> /\ last.vendor.st = "ok")

\* The vendor package was missing: no request was sent and the call returned false.
C5_Witness ==
    /\ last.op = "validate_api_key"
    /\ last.sent = <<>>
    /\ last.res = Return(FALSE)

\* C6: create_provider selects the variant by the lowercased name: every casing
\* of "openai" gives an OpenAIProvider, every casing of "gemini" a
\* GeminiProvider, and every other name fails with the unsupported-provider
\* error, which lists the valid names, and constructs no provider.
C6_FactorySelectsByLowercasedName ==
    last.op = "create_provider" =>
        /\ last.name \in Casings(openai) =>
               (last.res.st = "ok" /\ provider.cls = "OpenAIProvider")
        /\ last.name \in Casings(gemini) =>
               (last.res.st = "ok" /\ provider.cls = "GeminiProvider")
        /\ last.name \notin (Casings(openai) \cup Casings(gemini)) =>
               /\ last.res.st = "raise"
               /\ last.res.exc.type = "ValueError"
               /\ last.res.exc.msg = "Unsupported provider"
               /\ last.res.exc.supported = <<openai, gemini>>
               /\ provider = NoProvider

\* "OPENAI" was asked for and an OpenAIProvider was constructed.
C6_Witness ==
    /\ last.op = "create_provider"
    /\ last.name = <<"O", "P", "E", "N", "A", "I">>
    /\ provider.cls = "OpenAIProvider"

\* C7: client initialization is lazy: after create_provider the client is unset
\* and nothing was constructed or sent; the first validate_api_key or
\* generate_syllabus constructs it (unless the vendor package is missing), and
\* every later call uses that same client: at most one client is constructed.
C7_LazyClientBuiltOnce ==
    /\ last.op \in {"none", "create_provider"} => (built = 0 /\ requests = <<>>)
    /\ built <= 1
    /\ provider # NoProvider =>
           /\ provider.client = built
           /\ (calls # <<>> /\ VendorPackage(provider.cls) \in installed) =>
                  provider.client = 1
    /\ \A i \in DOMAIN requests : requests[i].client = 1

\* Two calls were made on one provider and both requests went through the one
\* client.
C7_Witness ==
    /\ Len(calls) = 2
    /\ Len(requests) = 2
    /\ built = 1

\* C9: each call of the service's generate_syllabus calls the provider's
\* generate_syllabus exactly once, with the system prompt and the user prompt
\* built from the course input; when that call fails nothing is retried, no
\* Syllabus is returned and the provider's error reaches the caller unchanged.
C9_ProviderCalledOnce ==
    last.op = "generate_syllabus" =>
        /\ last.called = <<GenerateCall(SYSTEM_PROMPT,
                                        build_syllabus_prompt(to_dict(last.course_input)))>>
        /\ Len(last.sent) <= 1
        /\ last.returned.st = "raise" => last.res = last.returned

\* The provider failed and the service passed its error on.
C9_Witness ==
    /\ last.op = "generate_syllabus"
    /\ last.returned.st = "raise"
    /\ last.returned.exc.type = "Exception"
    /\ last.res = last.returned

(***************************************************************************)
(* The run of main.                                                        *)
(***************************************************************************)
\* The run wrote the syllabus file and announced it.
Succeeded ==
    /\ fs.files # {}
    /\ stdout # <<>>
    /\ stdout[Len(stdout)].level = "SUCCESS"

\* The run ended on the user's interrupt.
WasCancelled == stdout # <<>> /\ stdout[Len(stdout)] = Cancelled

\* The run printed the error banner.
ErrorBanner == \E i \in DOMAIN stdout : stdout[i].level = "ERROR"

\* C8: a run of main ends with exit status 0 only when it succeeded (a syllabus
\* was generated and saved) or was cancelled by the user's interrupt; every run
\* that ends because of an error prints the error banner and exits with status 1.
C8_ExitStatusTellsOutcome ==
    exit.exited =>
        /\ exit.status = 0 => (Succeeded \/ WasCancelled)
        /\ ~(Succeeded \/ WasCancelled) => (ErrorBanner /\ exit.status = 1)

(***************************************************************************)
(* Claims about the prompt builder (checked under SpecPrompt).             *)
(***************************************************************************)
\* An optional field is set when it holds a text; None and "" are not set.
IsSet(v) == v.kind = "str" /\ v.val # ""

\* The bullet line of each optional field, in the fixed order.
BulletFields == <<"complexity", "age_group", "tone">>
BulletPrefix(field) ==
    CASE field = "complexity" -> "- **Complexity Level**: "
      [] field = "age_group" -> "- **Target Age Group**: "
      [] field = "tone" -> "- **Tone/Style**: "

\* A line that is the bullet of some optional field, whatever its value.
IsBullet(line) ==
    \E i \in DOMAIN BulletFields, c \in PromptInputs :
        line \in {BulletPrefix(BulletFields[i]) \o PyStr(c[BulletFields[i]]),
                  BulletPrefix(BulletFields[i])}

\* The bullets of the fields of c that are set, from field i on, in order.
RECURSIVE BulletsFrom(_, _)
BulletsFrom(c, i) ==
    IF i > Len(BulletFields) THEN <<>>
    ELSE (IF IsSet(c[BulletFields[i]])
          THEN <<BulletPrefix(BulletFields[i]) \o c[BulletFields[i]].val>>
          ELSE <<>>) \o BulletsFrom(c, i + 1)

\* C12: the user prompt contains the topic and the bullet line of an optional
\* field exactly when that field is set; the bullets present appear in the
\* order complexity, age_group, tone, before the "## Requirements:" block.
\* With only the topic set there is no bullet; with topic "Intro to Web
\* Development" and complexity "Beginner" the line "- **Complexity Level**:
\* Beginner" is there and no age-group or tone bullet.
C12_PromptBullets ==
    last.op = "build_syllabus_prompt" =>
        /\ last.parts[1] = "Create a comprehensive course syllabus for the topic: **"
                               \o collected.topic.val \o "**"
        /\ SelectSeq(last.parts, IsBullet) = BulletsFrom(collected, 1)
        /\ \E r \in DOMAIN last.parts :
               /\ last.parts[r] = "## Requirements:"
               /\ \A i \in DOMAIN last.parts : IsBullet(last.parts[i]) => i < r
        /\ last.res = JoinStrings(last.parts, 1)
        /\ (~IsSet(collected.complexity) /\ ~IsSet(collected.age_group)
                /\ ~IsSet(collected.tone)) =>
               \A i \in DOMAIN last.parts : ~IsBullet(last.parts[i])
        /\ (collected.topic = JStr("Intro to Web Development")
                /\ collected.complexity = JStr("Beginner")
                /\ ~IsSet(collected.age_group) /\ ~IsSet(collected.tone)) =>
               SelectSeq(last.parts, IsBullet) = <<"- **Complexity Level**: Beginner">>

\* The prompt was built for "Intro to Web Development" at the "Beginner" level
\* and holds that bullet.
C12_Witness ==
    /\ last.op = "build_syllabus_prompt"
    /\ collected.topic = JStr("Intro to Web Development")
    /\ collected.complexity = JStr("Beginner")
    /\ collected.age_group = JNull
    /\ collected.tone = JNull
    /\ \E i \in DOMAIN last.parts : last.parts[i] = "- **Complexity Level**: Beginner"

(***************************************************************************)
(* Claims about save_syllabus (checked under SpecSave).                    *)
(***************************************************************************)
\* The lowercase alphanumerics.
LowerAlnum == {LowerCase[n] : n \in DOMAIN LowerCase} \cup {Digits[n] : n \in DOMAIN Digits}

\* The slug of a title: the title lowercased, the characters that are neither
\* alphanumeric nor whitespace removed, and an underscore put where
\* whitespace separates two of the characters that are left.
Slug(cs) ==
    LET low == str_lower(cs)
        k == SelectSeq(low, LAMBDA c : c \in LowerAlnum \/ c \in Whitespace)
        Piece(i) ==
            IF k[i] \in Whitespace THEN <<>>
            ELSE IF i > 1 /\ k[i - 1] \in Whitespace
                    /\ \E j \in 1..(i - 1) : k[j] \notin Whitespace
            THEN <<"_", k[i]>>
            ELSE <<k[i]>>
        F[i \in 0..Len(k)] == IF i = 0 THEN <<>> ELSE F[i - 1] \o Piece(i)
    IN  F[Len(k)]

\* Only lowercase alphanumerics and underscores; no underscore first, last or
\* next to another.
WellFormedSlug(g) ==
    /\ \A i \in DOMAIN g : g[i] \in LowerAlnum \cup {"_"}
    /\ g # <<>> => (g[1] # "_" /\ g[Len(g)] # "_")
    /\ \A i \in 1..(Len(g) - 1) : ~(g[i] = "_" /\ g[i + 1] = "_")

\* C14: for every course title save_syllabus writes one file, in the output
\* directory, named by the slug of the title followed by "_syllabus.md"; the
\* slug holds only lowercase alphanumerics and underscores, with no leading,
\* trailing or doubled underscore.
C14_FileNamedBySlug ==
    (last.op = "save_syllabus" /\ last.res.st = "ok") =>
        LET g == Slug(Characters(parsed.val.course_title.val))
        IN  /\ WellFormedSlug(g)
            /\ fs.dir
            /\ Cardinality(fs.files) = 1
            /\ \A f \in fs.files :
                   /\ f.dir = "output"
                   /\ f.name = Text(g) \o "_syllabus.md"
                   /\ f.content = to_markdown(parsed.val).val
            /\ last.res.val = "output/" \o Text(g) \o "_syllabus.md"

\* A title with a whitespace run between two words and punctuation was saved
\* as "a_b_syllabus.md".
C14_Witness ==
    /\ last.op = "save_syllabus"
    /\ parsed.val.course_title.val = "A  b"
    /\ \E f \in fs.files : f.name = "a_b_syllabus.md"

(***************************************************************************)
(* Claims about the run of main (checked under Spec).                      *)
(***************************************************************************)
\* The topic of the CourseInput is a text of at least one character.
TopicEntered == collected.topic.kind = "str" /\ collected.topic.val # ""

\* C15: collect_course_inputs asks for the topic again as long as the stripped
\* line is empty and goes on to the next prompt only with a non-empty topic, so
\* the CourseInput it returns has a non-empty topic and no provider is created
\* or contacted before the topic was entered.
C15_TopicNeverEmpty ==
    /\ []((pc \in {"complexity", "age_group", "tone", "setup", "select_provider",
                    "enter_key", "create", "validate", "generate", "display", "save"}
              \/ provider # NoProvider \/ calls # <<>> \/ requests # <<>>)
             => TopicEntered)
    /\ [][(pc = "topic" /\ pc' # "done") =>
              /\ last'.op = "input"
              /\ IF str_strip(last'.line) = <<>>
                 THEN pc' = "topic" /\ collected' = collected
                 ELSE /\ pc' = "complexity"
                      /\ collected'.topic = JStr(Text(str_strip(last'.line)))]_vars

\* A line of whitespace was typed at the topic prompt and the prompt is asked
\* again.
C15_Witness ==
    /\ pc = "topic"
    /\ last.op = "input"
    /\ last.line = <<" ">>
    /\ collected.topic = JNull

\* A provider call failed: validate_api_key did not return true, or
\* generate_syllabus raised.
ProviderCallFailed ==
    \/ last.op = "validate_api_key" /\ last.res # Return(TRUE)
    \/ last.op = "generate_syllabus" /\ last.res.st = "raise"

\* C16: in a run of main validation and generation are sequential:
\* generate_syllabus is called only after validate_api_key of the same
\* provider returned true, and after validate_api_key returned false or a
\* provider call failed no further provider call is made in that run.
C16_ValidateThenGenerate ==
    /\ [](/\ Len(calls) <= 2
          /\ Len(calls) >= 1 => calls[1].method = "validate_api_key"
          /\ Len(calls) = 2 => calls[2].method = "generate_syllabus"
          /\ Len(requests) <= Len(calls))
    /\ [][(Len(calls') > Len(calls) /\ calls'[Len(calls')].method = "generate_syllabus") =>
              /\ last.op = "validate_api_key"
              /\ last.res = Return(TRUE)
              /\ calls = <<[method |-> "validate_api_key"]>>
              /\ provider'.cls = provider.cls
              /\ provider'.api_key = provider.api_key
              /\ provider'.model = provider.model]_vars
    /\ [][ProviderCallFailed =>
              (calls' = calls /\ requests' = requests /\ provider' = provider)]_vars

\* The key was validated and generate_syllabus was then called, and failed.
C16_Witness ==
    /\ Len(calls) = 2
    /\ last.op = "generate_syllabus"
    /\ last.res.st = "raise"
    /\ pc = "done"

\* The vendor request of the step being taken was interrupted by the user.
VendorCallInterrupted ==
    /\ last' # last
    /\ last'.op \in {"validate_api_key", "generate_syllabus"}
    /\ last'.sent # <<>>
    /\ last'.vendor = Raise(Interrupt)

\* The step ends the run on the cancellation path.
CancellationPath ==
    /\ pc' = "done"
    /\ exit' = Exited(0)
    /\ stdout' = Append(stdout, Cancelled)

\* C17: a user interrupt at any step of main, also while validate_api_key or
\* generate_syllabus waits for the vendor, ends the run on the cancellation
\* path (cancellation message, exit status 0): it is not turned into
\* validate_api_key returning false, not wrapped into a provider error, and
\* never leads to exit status 1.
C17_InterruptCancels ==
    /\ [][KeyboardInterrupt => CancellationPath]_vars
    /\ [][VendorCallInterrupted =>
              /\ last'.res = Raise(Interrupt)
              /\ last'.op = "generate_syllabus" => last'.returned = Raise(Interrupt)
              /\ CancellationPath]_vars
    /\ []((\E i \in DOMAIN stdout : stdout[i] = Cancelled) =>
              (exit = Exited(0) /\ ~ErrorBanner /\ WasCancelled))

\* The user interrupted the request of validate_api_key and the run ended as
\* cancelled.
C17_Witness ==
    /\ last.op = "validate_api_key"
    /\ last.sent # <<>>
    /\ last.vendor = Raise(Interrupt)
    /\ WasCancelled
    /\ exit = Exited(0)

\* At least one of the two environment keys is set.
EnvKeySet ==
    /\ config.loaded
    /\ \/ NotEmpty(config.openai_api_key)
       \/ NotEmpty(config.gemini_api_key)

\* The environment key and the configured model of a provider.
EnvKeyOf(name) ==
    IF name = openai THEN config.openai_api_key ELSE config.gemini_api_key
EnvModelOf(name) ==
    IF name = openai THEN config.openai_model ELSE config.gemini_model
OtherProvider(name) == IF name = openai THEN gemini ELSE openai

\* The missing-credential error for the configured provider.
MissingCredential ==
    [type |-> "ValueError", msg |-> "No API key found for", name |-> config.ai_provider]

\* C18: when at least one environment key is set, setup_api_keys returns
\* "openai" or "gemini" with the non-empty environment key of that provider
\* (the configured provider if its key is set, else the other provider, whose
\* key is set), or raises the missing-credential error; it returns no empty
\* key and no key of the other provider, and main asks Config for the model of
\* the provider returned.
C18_CredentialsMatchProvider ==
    /\ []((EnvKeySet /\ creds.provider_name # <<>>) =>
              /\ creds.provider_name \in {openai, gemini}
              /\ creds.api_key = EnvKeyOf(creds.provider_name)
              /\ NotEmpty(creds.api_key)
              /\ IF config.ai_provider \in {openai, gemini}
                    /\ NotEmpty(EnvKeyOf(config.ai_provider))
                 THEN creds.provider_name = config.ai_provider
                 ELSE /\ config.ai_provider \in {openai, gemini}
                      /\ creds.provider_name = OtherProvider(config.ai_provider)
              /\ pc \in {"validate", "generate", "display", "save"} =>
                     /\ creds.model = EnvModelOf(creds.provider_name)
                     /\ provider.model = EnvModelOf(creds.provider_name)
                     /\ provider.api_key = creds.api_key)
    /\ [][(EnvKeySet /\ pc = "setup" /\ pc' # "setup") =>
              \/ pc' = "create" /\ creds'.provider_name # <<>>
              \/ /\ pc' = "done"
                 /\ creds' = NoCreds
                 /\ \/ WasCancelled'
                    \/ /\ exit' = Exited(1)
                       /\ \E i \in DOMAIN stdout' :
                              stdout'[i] = ErrorOccurred(MissingCredential)]_vars

\* "openai" is configured without a key and the key of Gemini is set: main
\* goes on with Gemini, its key and its model.
C18_Witness ==
    /\ pc = "validate"
    /\ config.ai_provider = openai
    /\ ~NotEmpty(config.openai_api_key)
    /\ creds.provider_name = gemini
    /\ creds.api_key = JStr("gemini-key")
    /\ creds.model = JStr("gemini-1.5-flash")

\* generate_syllabus of the service has returned a Syllabus.
SyllabusReturned ==
    /\ last.op = "generate_syllabus"
    /\ last.res.st = "ok"
    /\ parsed = last.res

\* C19: in a run of main the output file is written only after
\* generate_syllabus returned a Syllabus: on every path that ends earlier
\* save_syllabus is not called and neither the file nor the directory is
\* created; a run writes at most one file.
C19_FileOnlyAfterGeneration ==
    /\ [](/\ (fs.dir \/ fs.files # {}) => SyllabusReturned
          /\ pc = "save" => SyllabusReturned
          /\ (pc = "done" /\ ~SyllabusReturned) => fs = EmptyFs
          /\ fs.files # {} => (fs.dir /\ rendered.st = "ok")
          /\ Cardinality(fs.files) <= 1)
    /\ [][fs' # fs => (pc = "save" /\ pc' = "done" /\ fs'.dir)]_vars

\* The run wrote its one file after the syllabus was returned.
C19_Witness ==
    /\ pc = "done"
    /\ SyllabusReturned
    /\ Cardinality(fs.files) = 1
    /\ exit = Exited(0)

====
